---- MODULE Spec2Model ----
(***************************************************************************)
(* State-machine model of the creatorpilot backend: the Express servers of *)
(* src/index.js (two server files: lines 1-179, whose toggle-admin route   *)
(* is admin-gated, and lines 181-477, whose toggle-admin route is          *)
(* owner-gated), the requireAdmin middleware of src/unnamed/part_000, the  *)
(* express-rate-limit configuration, and the Mongoose User store.          *)
(*                                                                         *)
(* Every `await` of a handler is a point where other requests may run, so  *)
(* each handler is cut into one action per store operation; the code       *)
(* between two awaits belongs to the action of the await that precedes it. *)
(***************************************************************************)
EXTENDS Integers, Sequences, FiniteSets, TLC

\* ------------------------------------------------------------- bounds
MaxReq == 2        \* requests in flight at once
MaxOps == 5        \* requests the server receives in one run
MaxTicks == 2      \* clock steps of half a rate window
MaxOver == 2       \* requests a client sends beyond the ceiling of its window
MaxWeeks == 2      \* weeks the clock runs while tokens are followed to their expiry

\* ------------------------------------------------------------- inputs
Emails == {"owner@x", "a@x"}
Passwords == {"p", "q"}
Names == {"n"}
Slots == 1..MaxReq
Ids == 1..(Cardinality(Emails) + 1)   \* every _id the store can give, and one it never gives
Variants == {"adminGated", "ownerGated"}

\* ------------------------------------------------------------- state
VARIABLES
    variant,   \* which server file of src/index.js is running
    users,     \* the users collection: a sequence of documents, _id = index
    issued,    \* every session token signed so far (the clients hold them)
    reqs,      \* the requests in flight, one per slot
    regLog,    \* history: the (email, password, _id) of every register answered 201
    transcripts, \* the transcripts collection: a sequence of documents, _id = index
    togLog,    \* history: per target account, the toggles answered 200 so far
    nops,      \* requests received so far
    now,       \* the clock, in ms
    store,     \* the limiter's memory store: per client key, hits and reset time
    pending,   \* the clients with a request whose body express.json is reading
    resp,      \* the response the middleware chain wrote last
    win        \* history: per client, its rate window and what was sent in it

appVars == <<variant, users, transcripts, issued, reqs, regLog, togLog, nops>>
rateVars == <<now, store, pending, resp, win>>
vars == <<variant, users, transcripts, issued, reqs, regLog, togLog, nops, now, store,
          pending, resp, win>>

\* --------------------------------------------------- password hashing
\* bcrypt.hash(password, 10): a one-way transform, never the plaintext.
Hash(p) == <<"bcrypt", p>>

\* A compare that takes the stored value for the plaintext.
ComparePlain(p, h) == h = <<p>>

\* bcrypt.compare(password, user.password)
Compare(p, h) == h = Hash(p)

\* ------------------------------------------------------ session token
NoToken == [userId |-> 0, isAdmin |-> FALSE, isOwner |-> FALSE, iat |-> 0, exp |-> 0]

\* Date.now() in the seconds of a token's iat and exp claims: Math.floor(ms / 1000)
Seconds(ms) == ms \div 1000

Hour == 60 * 60
Day == 24 * Hour

\* expiresIn: '7d', in seconds
expiresIn == 7 * Day

\* A lifetime of seven hours, as '7h' for '7d' would give.
SignSevenHours(uid, u) ==
    [userId |-> uid, isAdmin |-> u.isAdmin, isOwner |-> u.isOwner,
     iat |-> Seconds(now), exp |-> Seconds(now) + 7 * Hour]

\* jwt.sign({ userId, isAdmin, isOwner }, secret, { expiresIn: '7d' }): the claims
\* are those of the document read, iat is the time of signing and exp = iat + 7 days.
Sign(uid, u) ==
    [userId |-> uid, isAdmin |-> u.isAdmin, isOwner |-> u.isOwner,
     iat |-> Seconds(now), exp |-> Seconds(now) + expiresIn]

\* The earlier server signs { userId, isAdmin } only.
SignAdminGated(uid, u) ==
    [userId |-> uid, isAdmin |-> u.isAdmin, isOwner |-> FALSE,
     iat |-> Seconds(now), exp |-> Seconds(now) + expiresIn]

\* ------------------------------------------------------- the store
NewUser(e, h) ==
    [email |-> e, password |-> h, isAdmin |-> FALSE, isOwner |-> FALSE,
     name |-> "", bio |-> ""]

\* User.findOne({ email }): the _id of the first document with that email, 0 for null
FindOne(e) ==
    IF \E i \in 1..Len(users) : users[i].email = e
    THEN CHOOSE i \in 1..Len(users) :
            /\ users[i].email = e
            /\ \A j \in 1..(i - 1) : users[j].email # e
    ELSE 0

\* User.findById(id): whether a document with that _id exists
Exists(id) == id \in 1..Len(users)

\* The unique index on email: create fails when the email is already stored.
CreateRejects(e) == FindOne(e) # 0

\* The error message of a rejected insert.
DuplicateKey == "E11000 duplicate key error"

\* The schema's pre-save hook hashes the password of a new document.
PreSaveHash(p) == Hash(p)

\* ------------------------------------------------------- requests
\* The transcript field of a JSON body: missing, a string (its characters are lead
\* whitespace characters, then core characters that begin and end with none, then
\* trail whitespace characters), or a number.
NoText == [kind |-> "missing", lead |-> 0, core |-> 0, trail |-> 0]

Idle ==
    [pc |-> "idle", route |-> "", tok |-> NoToken, email |-> "", pw |-> "",
     target |-> 0, snap |-> FALSE, name |-> "", status |-> 0, msg |-> "",
     detail |-> "", out |-> NoToken, created |-> 0, expect |-> 0, found |-> FALSE,
     ovl |-> FALSE, list |-> {}, text |-> NoText]

\* res.status(s).json({ message | error : m }) ends a request: what is left of it is
\* the response, with the parts of the request the properties below speak about.
Respond(q, s, m) ==
    [Idle EXCEPT !.pc = "done", !.route = q.route, !.status = s, !.msg = m,
                 !.expect = q.expect,
                 !.email = IF q.route = "register" THEN q.email ELSE "",
                 !.target = IF q.route \in {"toggle", "deleteTranscript", "deleteHistory"}
                           THEN q.target ELSE 0,
                 !.tok = IF q.route \in {"register", "login"} THEN NoToken ELSE q.tok,
                 !.text = IF q.route = "titles" THEN q.text ELSE NoText]

Set(r, q) == reqs' = [reqs EXCEPT ![r] = q]

\* The next request takes the lowest free slot, once the responses written so far
\* have been delivered.
Free(r) == /\ reqs[r].pc = "idle"
           /\ \A s \in Slots : reqs[s].pc # "done"
           /\ \A s \in 1..(r - 1) : reqs[s].pc # "idle"
           /\ nops < MaxOps
           /\ nops' = nops + 1
           /\ UNCHANGED rateVars

\* ------------------------------------------------ the middleware chain
\* The response a middleware or a handler ends a request with.
PipeRespond(q, st, m) ==
    [q EXCEPT !.stage = "done", !.status = st, !.msg = m, !.body = "none", !.auth = "open"]

Clients == {"ip1", "ip2"}
Auths == {"open", "valid"}            \* an open route, or a protected one and its token

\* rateLimit({ windowMs: 60 * 1000, max: 10, message: ... })
windowMs == 60 * 1000
max == 10
Tick == windowMs \div 2

NoRecord == [totalHits |-> 0, resetTime |-> 0]
NoWindow == [start |-> 0 - 1, seen |-> 0, adm |-> 0, limited |-> FALSE, renewed |-> FALSE]

\* A request as it enters the chain.
Inbound(c, b, a) ==
    [stage |-> "chain", client |-> c, body |-> b, auth |-> a,
     parsed |-> FALSE, verified |-> FALSE, status |-> 0, msg |-> ""]

NoResponse == PipeRespond(Inbound("", "none", "open"), 0, "")

\* History of the toggles of one target: odd, whether an odd number of them was
\* answered 200; k, how many of the last ones (at most two) ran one after the other,
\* no other toggle of the target in flight meanwhile; base, the stored isAdmin
\* before the first of those.
NoToggles == [odd |-> FALSE, k |-> 0, base |-> FALSE]

InitApp ==
    /\ issued = {}
    /\ transcripts = << >>
    /\ togLog = [i \in Ids |-> NoToggles]
    /\ reqs = [r \in Slots |-> Idle]
    /\ regLog = {}
    /\ nops = 0

InitRate ==
    /\ now = 0
    /\ store = [c \in Clients |-> NoRecord]
    /\ pending = {}
    /\ resp = NoResponse
    /\ win = [c \in Clients |-> NoWindow]

Init ==
    /\ InitApp
    /\ InitRate
    /\ variant \in Variants
    /\ \E a \in BOOLEAN :
         users = << [email |-> "owner@x", password |-> Hash("p"), isAdmin |-> a,
                     isOwner |-> TRUE, name |-> "", bio |-> ""] >>

\* ----------------------------------------------------- POST /api/register
\* if (existing) return res.status(400).json({ message: 'User already exists' })
RegisterDuplicateResponse(q) == Respond(q, 400, "User already exists")

\* Both servers: const { email, password } = req.body;
\* existing = await User.findOne({ email }); 400 when it exists
RegisterFindOne(r, e, p) ==
    /\ Free(r)
    /\ LET q == [Idle EXCEPT !.route = "register", !.email = e, !.pw = p] IN
         IF FindOne(e) # 0
         THEN Set(r, RegisterDuplicateResponse(q))
         ELSE Set(r, [q EXCEPT !.pc = "reg_create"])
    /\ UNCHANGED <<variant, transcripts, users, issued, regLog, togLog>>

\* catch (err) { res.status(500).json({ message: 'Register error', error: err.message }) }
RegisterCatch(q, err) == [Respond(q, 500, "Register error") EXCEPT !.detail = err]

\* Earlier server: hashed = await bcrypt.hash(password, 10);
\* await User.create({ email, password: hashed }); res.status(201) 'User created'
RegisterCreateAdminGated(r) ==
    /\ variant = "adminGated"
    /\ reqs[r].pc = "reg_create"
    /\ IF CreateRejects(reqs[r].email)
       THEN /\ Set(r, RegisterCatch(reqs[r], DuplicateKey))
            /\ UNCHANGED <<users, regLog>>
       ELSE /\ users' = Append(users, NewUser(reqs[r].email, Hash(reqs[r].pw)))
            /\ Set(r, [Respond(reqs[r], 201, "User created")
                           EXCEPT !.created = Len(users) + 1])
            /\ regLog' = regLog \cup {[email |-> reqs[r].email, pw |-> reqs[r].pw,
                                        id |-> Len(users) + 1]}
    /\ UNCHANGED <<variant, transcripts, issued, togLog, nops, rateVars>>

\* Later server: await User.create({ email, password }) (the schema hashes it)
RegisterCreate(r) ==
    /\ variant = "ownerGated"
    /\ reqs[r].pc = "reg_create"
    /\ IF CreateRejects(reqs[r].email)
       THEN /\ Set(r, RegisterCatch(reqs[r], DuplicateKey))
            /\ UNCHANGED users
       ELSE /\ users' = Append(users, NewUser(reqs[r].email, PreSaveHash(reqs[r].pw)))
            /\ Set(r, [reqs[r] EXCEPT !.pc = "reg_refind", !.created = Len(users) + 1])
    /\ UNCHANGED <<variant, transcripts, issued, regLog, togLog, nops, rateVars>>

\* Later server: user = await User.findOne({ email }); token = jwt.sign(...); 201 { token }
RegisterRefind(r) ==
    /\ variant = "ownerGated"
    /\ reqs[r].pc = "reg_refind"
    /\ LET uid == FindOne(reqs[r].email)
           t == Sign(uid, users[uid])
       IN /\ Set(r, [Respond(reqs[r], 201, "") EXCEPT !.out = t])
          /\ issued' = issued \cup {t}
    /\ regLog' = regLog \cup {[email |-> reqs[r].email, pw |-> reqs[r].pw,
                                id |-> reqs[r].created]}
    /\ UNCHANGED <<variant, transcripts, users, togLog, nops, rateVars>>

\* -------------------------------------------------------- POST /api/login
\* The id a register answered 201 for these credentials gave, 0 for none.
Registered(e, p) ==
    IF \E x \in regLog : x.email = e /\ x.pw = p
    THEN (CHOOSE x \in regLog : x.email = e /\ x.pw = p).id
    ELSE 0

\* A login that tells the caller the account does not exist.
LoginNoUserResponseLeaky(q) == Respond(q, 404, "User not found")

\* if (!user) return res.status(400).json({ message: 'Invalid credentials' })
LoginNoUserResponse(q) == Respond(q, 400, "Invalid credentials")

\* if (!match) return res.status(400).json({ message: 'Invalid credentials' })
LoginMismatchResponse(q) == Respond(q, 400, "Invalid credentials")

\* The token of a login: the later server adds the isOwner claim.
LoginToken(uid) ==
    IF variant = "ownerGated" THEN Sign(uid, users[uid]) ELSE SignAdminGated(uid, users[uid])

\* user = await User.findOne({ email }); the compare and the signing use that document.
Login(r, e, p) ==
    /\ Free(r)
    /\ LET uid == FindOne(e)
           q == [Idle EXCEPT !.route = "login", !.email = e, !.pw = p,
                             !.expect = Registered(e, p)]
       IN
         IF uid = 0
         THEN /\ Set(r, LoginNoUserResponse(q))
              /\ UNCHANGED issued
         ELSE IF ~Compare(p, users[uid].password)
         THEN /\ Set(r, [LoginMismatchResponse(q) EXCEPT !.found = TRUE])
              /\ UNCHANGED issued
         ELSE /\ Set(r, [Respond(q, 200, "") EXCEPT !.found = TRUE,
                                                    !.out = LoginToken(uid)])
              /\ issued' = issued \cup {LoginToken(uid)}
    /\ UNCHANGED <<variant, transcripts, users, regLog, togLog>>

\* ------------------------------------------------------ requireAuth
\* jwt.verify: a token is expired from the second of its exp claim on.
Expired(t) == Seconds(now) >= t.exp

\* The bearer token verifies when this server signed it and it has not expired.
Authenticated(t) == t \in issued /\ ~Expired(t)

\* A request of a protected route as requireAuth leaves it: req.user = the claims.
Request(route, t) == [Idle EXCEPT !.route = route, !.tok = t]

\* requireAuth answers 401 without a valid token; the handler never runs.
Unauthenticated(r, route, t) ==
    /\ Free(r)
    /\ ~Authenticated(t)
    /\ Set(r, Respond(Request(route, t), 401, "Unauthorized"))
    /\ UNCHANGED <<variant, transcripts, users, issued, regLog, togLog>>

\* ------------------------------------ PUT /api/admin/toggle-admin/:userId
\* Earlier server: if (!requestingUser?.isAdmin) -> 403
ActorAllowedAdminGated(uid) == Exists(uid) /\ users[uid].isAdmin

\* A toggle-admin route whose handler checks no role of the actor.
ActorAllowedAnyone(uid) == Exists(uid)

\* Later server: if (!requestingUser?.isOwner) -> 403
ActorAllowed(uid) == Exists(uid) /\ users[uid].isOwner

\* Earlier server: requestingUser = await User.findById(req.user.userId) and its check
ToggleFindActorAdminGated(r, t, target) ==
    /\ variant = "adminGated"
    /\ Free(r)
    /\ Authenticated(t)
    /\ LET q == [Request("toggle", t) EXCEPT !.target = target] IN
         IF ActorAllowedAdminGated(t.userId)
         THEN Set(r, [q EXCEPT !.pc = "tog_findTarget"])
         ELSE Set(r, Respond(q, 403, "Forbidden: Admins only"))
    /\ UNCHANGED <<variant, transcripts, users, issued, regLog, togLog>>

\* Later server: requestingUser = await User.findById(req.user.userId) and its check
ToggleFindActor(r, t, target) ==
    /\ variant = "ownerGated"
    /\ Free(r)
    /\ Authenticated(t)
    /\ LET q == [Request("toggle", t) EXCEPT !.target = target] IN
         IF ActorAllowed(t.userId)
         THEN Set(r, [q EXCEPT !.pc = "tog_findTarget"])
         ELSE Set(r, Respond(q, 403, "Forbidden: Only owner can manage admin roles"))
    /\ UNCHANGED <<variant, transcripts, users, issued, regLog, togLog>>

\* Earlier server: user = await User.findById(req.params.userId); 404 when absent;
\* user.isAdmin = !user.isAdmin on the document read, then save() is called.
ToggleFindTargetAdminGated(r) ==
    /\ variant = "adminGated"
    /\ reqs[r].pc = "tog_findTarget"
    /\ IF ~Exists(reqs[r].target)
       THEN Set(r, Respond(reqs[r], 404, "User not found"))
       ELSE Set(r, [reqs[r] EXCEPT !.pc = "tog_save",
                                   !.snap = ~users[reqs[r].target].isAdmin])
    /\ UNCHANGED <<variant, transcripts, users, issued, regLog, togLog, nops, rateVars>>

\* Later server: if (user.isOwner) -> 403 'Cannot change owner privileges'
TargetProtected(u) == u.isOwner

\* Later server: the same read, with the owner guard before the toggle.
ToggleFindTarget(r) ==
    /\ variant = "ownerGated"
    /\ reqs[r].pc = "tog_findTarget"
    /\ IF ~Exists(reqs[r].target)
       THEN Set(r, Respond(reqs[r], 404, "User not found"))
       ELSE IF TargetProtected(users[reqs[r].target])
       THEN Set(r, Respond(reqs[r], 403, "Cannot change owner privileges"))
       ELSE Set(r, [reqs[r] EXCEPT !.pc = "tog_save",
                                   !.snap = ~users[reqs[r].target].isAdmin])
    /\ UNCHANGED <<variant, transcripts, users, issued, regLog, togLog, nops, rateVars>>

\* A save whose pre-save hook hashes the stored password hash once more.
SaveIsAdminRehash(u, v) == [u EXCEPT !.isAdmin = v, !.password = <<"bcrypt", "hash">>]

\* A save that grants the admin role whatever the toggled value is.
SaveIsAdminGrant(u, v) == [u EXCEPT !.isAdmin = TRUE]

\* await user.save(): the modified path, isAdmin, is written to the stored document.
SaveIsAdmin(u, v) == [u EXCEPT !.isAdmin = v]

\* History: another toggle of the same target is between its read and its save.
Toggling(s, target) ==
    /\ reqs[s].pc \in {"tog_findTarget", "tog_save"}
    /\ reqs[s].target = target

\* History: the log of a target after the save of request r.
Logged(r, log) ==
    LET alone == ~reqs[r].ovl /\ \A s \in Slots \ {r} : ~Toggling(s, reqs[r].target)
    IN [odd |-> ~log.odd,
        k |-> IF ~alone THEN 0 ELSE IF log.k = 1 THEN 2 ELSE 1,
        base |-> IF ~alone THEN FALSE
                 ELSE IF log.k = 1 THEN log.base
                 ELSE users[reqs[r].target].isAdmin]

\* Both servers: await user.save(); res.json({ message, user })
ToggleSave(r) ==
    /\ reqs[r].pc = "tog_save"
    /\ users' = [users EXCEPT ![reqs[r].target] = SaveIsAdmin(@, reqs[r].snap)]
    /\ reqs' = [s \in Slots |->
                  IF s = r
                  THEN Respond(reqs[r], 200, IF variant = "ownerGated"
                                             THEN "User role updated" ELSE "User updated")
                  ELSE IF Toggling(s, reqs[r].target)
                  THEN [reqs[s] EXCEPT !.ovl = TRUE]
                  ELSE reqs[s]]
    /\ togLog' = [togLog EXCEPT ![reqs[r].target] = Logged(r, @)]
    /\ UNCHANGED <<variant, transcripts, issued, regLog, nops, rateVars>>

\* ------------------------------------------------- GET /api/admin/users
\* A role check that trusts the isAdmin claim of the token.
AdminAllowedByClaim(uid, t) == t.isAdmin

\* requireAdmin: if (!user || !user.isAdmin) -> 403, on the document read now
AdminAllowed(uid, t) == Exists(uid) /\ users[uid].isAdmin

\* requireAdmin: user = await User.findById(req.user.userId); 403 or next()
RequireAdmin(r, t) ==
    /\ Free(r)
    /\ Authenticated(t)
    /\ IF AdminAllowed(t.userId, t)
       THEN Set(r, [Request("adminUsers", t) EXCEPT !.pc = "adm_find"])
       ELSE Set(r, Respond(Request("adminUsers", t), 403, "Access denied. Admins only."))
    /\ UNCHANGED <<variant, transcripts, users, issued, regLog, togLog>>

\* users = await User.find().select('-password'); res.json(users)
AdminUsers(r) ==
    /\ reqs[r].pc = "adm_find"
    /\ Set(r, Respond(reqs[r], 200, ""))
    /\ UNCHANGED <<variant, transcripts, users, issued, regLog, togLog, nops, rateVars>>

\* ------------------------------------------------------ PUT /api/profile
\* A profile route that is declared with the role check of the admin routes.
ProfileFindAdminOnly(r, t, n) ==
    /\ variant = "ownerGated"
    /\ Free(r)
    /\ Authenticated(t)
    /\ LET q == [Request("profile", t) EXCEPT !.name = n] IN
         IF ~(Exists(t.userId) /\ users[t.userId].isAdmin)
         THEN Set(r, Respond(q, 403, "Access denied. Admins only."))
         ELSE Set(r, [q EXCEPT !.pc = "prof_save"])
    /\ UNCHANGED <<variant, transcripts, users, issued, regLog, togLog>>

\* Later server only: const { name, bio } = req.body;
\* user = await User.findById(req.user.userId); 404 when absent
ProfileFind(r, t, n) ==
    /\ variant = "ownerGated"
    /\ Free(r)
    /\ Authenticated(t)
    /\ LET q == [Request("profile", t) EXCEPT !.name = n] IN
         IF Exists(t.userId)
         THEN Set(r, [q EXCEPT !.pc = "prof_save"])
         ELSE Set(r, Respond(q, 404, "User not found"))
    /\ UNCHANGED <<variant, transcripts, users, issued, regLog, togLog>>

\* A profile update that assigns every field of the body to the document.
SaveProfileMassAssign(u, n) == [u EXCEPT !.name = n, !.bio = n, !.isOwner = TRUE]

\* user.name = name; user.bio = bio; await user.save(): the two modified paths
SaveProfile(u, n) == [u EXCEPT !.name = n, !.bio = n]

ProfileSave(r) ==
    /\ reqs[r].pc = "prof_save"
    /\ users' = [users EXCEPT ![reqs[r].tok.userId] = SaveProfile(@, reqs[r].name)]
    /\ Set(r, Respond(reqs[r], 200, "Profile updated"))
    /\ UNCHANGED <<variant, transcripts, issued, regLog, togLog, nops, rateVars>>

\* The clients have their responses; the slots are free for the next requests.
Deliver ==
    /\ \E s \in Slots : reqs[s].pc = "done"
    /\ reqs' = [s \in Slots |-> IF reqs[s].pc = "done" THEN Idle ELSE reqs[s]]
    /\ UNCHANGED <<variant, transcripts, users, issued, regLog, togLog, nops, rateVars>>

ProtectedRoutes == {"toggle", "adminUsers", "profile"}

Next ==
    \/ \E r \in Slots, e \in Emails, p \in Passwords : RegisterFindOne(r, e, p)
    \/ \E r \in Slots : RegisterCreateAdminGated(r)
    \/ \E r \in Slots : RegisterCreate(r)
    \/ \E r \in Slots : RegisterRefind(r)
    \/ \E r \in Slots, e \in Emails, p \in Passwords : Login(r, e, p)
    \/ \E r \in Slots, route \in ProtectedRoutes : Unauthenticated(r, route, NoToken)
    \/ \E r \in Slots, t \in issued, target \in Ids : ToggleFindActorAdminGated(r, t, target)
    \/ \E r \in Slots, t \in issued, target \in Ids : ToggleFindActor(r, t, target)
    \/ \E r \in Slots : ToggleFindTargetAdminGated(r)
    \/ \E r \in Slots : ToggleFindTarget(r)
    \/ \E r \in Slots : ToggleSave(r)
    \/ \E r \in Slots, t \in issued : RequireAdmin(r, t)
    \/ \E r \in Slots : AdminUsers(r)
    \/ \E r \in Slots, t \in issued, n \in Names : ProfileFind(r, t, n)
    \/ \E r \in Slots : ProfileSave(r)
    \/ Deliver

Spec == Init /\ [][Next]_vars

\* ---------------------------------------------- cors, express.json, limiter
\* app.use(express.json()): a JSON body is parsed into req.body.
JsonParse(q) == IF q.body = "json" THEN [q EXCEPT !.parsed = TRUE] ELSE q

\* The memory store's increment: a window that has elapsed starts again at one hit.
Increment(rec) ==
    IF rec.resetTime <= now
    THEN [totalHits |-> 1, resetTime |-> now + windowMs]
    ELSE [rec EXCEPT !.totalHits = @ + 1]

\* A ceiling that lets one request too many through.
ExceedsOffByOne(totalHits) == totalHits > max + 1

\* A ceiling that rejects the request that reaches it.
ExceedsEarly(totalHits) == totalHits >= max

\* max: 10: the request whose hit count is above max is rejected.
Exceeds(totalHits) == totalHits > max

\* app.use(limiter): count the hit of the client key, 429 above the ceiling.
Limiter(q) ==
    IF Exceeds(Increment(store[q.client]).totalHits)
    THEN PipeRespond(q, 429, "Too many requests, please try again in a minute.")
    ELSE q

\* requireAuth of a protected route, then the handler (its answer is not modelled).
Route(q) ==
    IF q.auth = "open" THEN PipeRespond(q, 200, "")
    ELSE PipeRespond([q EXCEPT !.verified = TRUE], 200, "")

\* History: the window of client c as a request reaching the limiter now finds it.
WindowAt(c) ==
    IF win[c].start < 0 \/ now >= win[c].start + windowMs
    THEN [start |-> now, seen |-> 0, adm |-> 0, limited |-> FALSE,
          renewed |-> win[c].limited]
    ELSE win[c]

\* The chain in the order of the app.use calls: express.json, then the limiter, then
\* the route. A request the limiter has answered goes no further.
Chain(q0) ==
    LET q1 == JsonParse(q0)
        q2 == Limiter(q1)
        admitted == q2.stage # "done"
        q3 == IF admitted THEN Route(q2) ELSE q2
        c == q0.client
        w == WindowAt(c)
    IN /\ store' = [store EXCEPT ![c] = Increment(@)]
       /\ win' = [win EXCEPT ![c] = [w EXCEPT !.seen = @ + 1,
                                              !.adm = @ + (IF admitted THEN 1 ELSE 0),
                                              !.limited = @ \/ ~admitted]]
       /\ resp' = q3

\* Hits of client c in its window, none once the window has elapsed.
Hits(c) == IF store[c].resetTime <= now THEN 0 ELSE store[c].totalHits

\* The requests a client sends in one window are bounded.
MaySend(c) == Hits(c) + (IF c \in pending THEN 1 ELSE 0) < max + MaxOver

\* A request without a body arrives: express.json passes it on and the chain runs.
Receive(c, a) ==
    /\ MaySend(c)
    /\ Chain(Inbound(c, "none", a))
    /\ UNCHANGED <<appVars, now, pending>>

\* A request with a JSON body arrives: express.json reads the body from the socket.
ReceiveBody(c) ==
    /\ MaySend(c)
    /\ c \notin pending
    /\ pending' = pending \cup {c}
    /\ UNCHANGED <<appVars, now, store, resp, win>>

\* The body is read: express.json parses it and the chain goes on.
BodyRead(c, a) ==
    /\ c \in pending
    /\ pending' = pending \ {c}
    /\ Chain(Inbound(c, "json", a))
    /\ UNCHANGED <<appVars, now>>

\* Time passes.
TickClock ==
    /\ now < MaxTicks * Tick
    /\ now' = now + Tick
    /\ UNCHANGED <<appVars, store, pending, resp, win>>

NextRate ==
    \/ \E c \in Clients, a \in Auths : Receive(c, a)
    \/ \E c \in Clients : ReceiveBody(c)
    \/ \E c \in Clients, a \in Auths : BodyRead(c, a)
    \/ TickClock

InitRateOnly ==
    /\ InitApp
    /\ InitRate
    /\ variant = "ownerGated"
    /\ users = << >>

SpecRate == InitRateOnly /\ [][NextRate]_vars

\* ------------------------------------------------------ the transcripts
DataRoutes == {"chapters", "transcripts", "history", "deleteTranscript", "deleteHistory"}

\* A find that leaves the userId out of its filter.
FindEvery(uid) == {i \in 1..Len(transcripts) : transcripts[i].live}

\* Transcript.find({ userId: req.user.userId }): the stored transcripts of that account
Find(uid) ==
    {i \in 1..Len(transcripts) : transcripts[i].live /\ transcripts[i].userId = uid}

\* A filter { _id } that leaves the userId out.
FindOneById(id, uid) == id \in 1..Len(transcripts) /\ transcripts[id].live

\* The filter { _id: req.params.id, userId: req.user.userId } finds a document.
FindOneOwned(id, uid) == id \in Find(uid)

\* findOneAndDelete, findByIdAndDelete: the document is no longer in the collection.
Delete(id) == [transcripts EXCEPT ![id].live = FALSE]

\* POST /api/generate-chapters: const { transcript, format } = req.body;
\* await openai.chat.completions.create(...)
ChaptersCall(r, t) ==
    /\ Free(r)
    /\ Authenticated(t)
    /\ Set(r, [Request("chapters", t) EXCEPT !.pc = "gen_call"])
    /\ UNCHANGED <<variant, transcripts, users, issued, regLog, togLog>>

\* The external call returns: with an error, catch -> 500 'Something went wrong';
\* with the chapters, await Transcript.create({ text, format, result, userId }).
ChaptersCreate(r, ok) ==
    /\ reqs[r].pc = "gen_call"
    /\ IF ok
       THEN Set(r, [reqs[r] EXCEPT !.pc = "gen_create"])
       ELSE Set(r, Respond(reqs[r], 500, "Something went wrong"))
    /\ UNCHANGED <<variant, transcripts, users, issued, regLog, togLog, nops, rateVars>>

\* The document is stored with userId: req.user.userId; res.json({ chapters: result })
ChaptersRespond(r) ==
    /\ reqs[r].pc = "gen_create"
    /\ transcripts' = Append(transcripts, [userId |-> reqs[r].tok.userId, live |-> TRUE])
    /\ Set(r, [Respond(reqs[r], 200, "") EXCEPT !.created = Len(transcripts) + 1])
    /\ UNCHANGED <<variant, users, issued, regLog, togLog, nops, rateVars>>

\* Earlier server, GET /api/transcripts:
\* res.json(await Transcript.find({ userId: req.user.userId }).sort({ createdAt: -1 }))
GetTranscripts(r, t) ==
    /\ variant = "adminGated"
    /\ Free(r)
    /\ Authenticated(t)
    /\ Set(r, [Respond(Request("transcripts", t), 200, "") EXCEPT !.list = Find(t.userId)])
    /\ UNCHANGED <<variant, transcripts, users, issued, regLog, togLog>>

\* Later server, GET /api/history: the same find, with a select of four fields.
GetHistory(r, t) ==
    /\ variant = "ownerGated"
    /\ Free(r)
    /\ Authenticated(t)
    /\ Set(r, [Respond(Request("history", t), 200, "") EXCEPT !.list = Find(t.userId)])
    /\ UNCHANGED <<variant, transcripts, users, issued, regLog, togLog>>

\* Later server, DELETE /api/transcripts/:id:
\* transcript = await Transcript.findOneAndDelete({ _id, userId }); 404 when null
DeleteTranscript(r, t, id) ==
    /\ variant = "ownerGated"
    /\ Free(r)
    /\ Authenticated(t)
    /\ LET q == [Request("deleteTranscript", t) EXCEPT !.target = id] IN
         IF FindOneOwned(id, t.userId)
         THEN /\ transcripts' = Delete(id)
              /\ Set(r, Respond(q, 200, "Transcript deleted"))
         ELSE /\ Set(r, Respond(q, 404, "Transcript not found or unauthorized"))
              /\ UNCHANGED transcripts
    /\ UNCHANGED <<variant, users, issued, regLog, togLog>>

\* Later server, DELETE /api/history/:id:
\* transcript = await Transcript.findOne({ _id, userId }); 404 when null
DeleteHistoryFind(r, t, id) ==
    /\ variant = "ownerGated"
    /\ Free(r)
    /\ Authenticated(t)
    /\ LET q == [Request("deleteHistory", t) EXCEPT !.target = id] IN
         IF FindOneOwned(id, t.userId)
         THEN Set(r, [q EXCEPT !.pc = "del_delete"])
         ELSE Set(r, Respond(q, 404, "Transcript not found"))
    /\ UNCHANGED <<variant, transcripts, users, issued, regLog, togLog>>

\* await Transcript.findByIdAndDelete(transcript._id); 'Transcript deleted successfully'
DeleteHistoryDelete(r) ==
    /\ reqs[r].pc = "del_delete"
    /\ transcripts' = Delete(reqs[r].target)
    /\ Set(r, Respond(reqs[r], 200, "Transcript deleted successfully"))
    /\ UNCHANGED <<variant, users, issued, regLog, togLog, nops, rateVars>>

\* Either server, with the accounts of the owner and of one user in the store.
InitData ==
    /\ InitApp
    /\ InitRate
    /\ variant \in Variants
    /\ users = << [email |-> "owner@x", password |-> Hash("p"), isAdmin |-> TRUE,
                   isOwner |-> TRUE, name |-> "", bio |-> ""],
                  NewUser("a@x", Hash("q")) >>

NextData ==
    \/ \E r \in Slots, e \in Emails, p \in Passwords : Login(r, e, p)
    \/ \E r \in Slots, route \in DataRoutes : Unauthenticated(r, route, NoToken)
    \/ \E r \in Slots, t \in issued : ChaptersCall(r, t)
    \/ \E r \in Slots, ok \in BOOLEAN : ChaptersCreate(r, ok)
    \/ \E r \in Slots : ChaptersRespond(r)
    \/ \E r \in Slots, t \in issued : GetTranscripts(r, t)
    \/ \E r \in Slots, t \in issued : GetHistory(r, t)
    \/ \E r \in Slots, t \in issued, id \in 1..(Len(transcripts) + 1) :
          DeleteTranscript(r, t, id)
    \/ \E r \in Slots, t \in issued, id \in 1..(Len(transcripts) + 1) :
          DeleteHistoryFind(r, t, id)
    \/ \E r \in Slots : DeleteHistoryDelete(r)
    \/ Deliver

SpecData == InitData /\ [][NextData]_vars

\* ------------------------------------------------ POST /api/generate-titles
Texts ==
    {NoText, [kind |-> "number", lead |-> 0, core |-> 0, trail |-> 0]}
        \cup [kind : {"string"}, lead : 0..1, core : {0, 19, 20, 21}, trail : 0..1]

\* The major versions of express the server may be installed with.
ExpressMajors == {4, 5}

\* transcript.length
Length(x) == x.lead + x.core + x.trail

\* transcript.trim(): the string without its leading and trailing whitespace
Trim(x) == [x EXCEPT !.lead = 0, !.trail = 0]

\* !transcript: undefined, the empty string (and 0) are falsy
Falsy(x) == x.kind = "missing" \/ (x.kind = "string" /\ Length(x) = 0)

minLength == 20

\* A check that takes a transcript of the minimum length for too short.
TooShortInclusive(x) == Length(Trim(x)) <= minLength

\* transcript.trim().length < 20
TooShort(x) == Length(Trim(x)) < minLength

\* const { transcript } = req.body;
\* if (!transcript || transcript.trim().length < 20) return 400; both before the try.
\* A transcript that is no string has no trim, and the TypeError rejects the promise
\* of the handler: express 4 drops the rejection and writes no response, express 5
\* passes it to its error handler, which answers 500.
TitlesCheck(r, t, x, major) ==
    /\ variant = "ownerGated"
    /\ Free(r)
    /\ Authenticated(t)
    /\ LET q == [Request("titles", t) EXCEPT !.text = x] IN
         IF Falsy(x)
         THEN Set(r, Respond(q, 400, "Transcript is too short or missing."))
         ELSE IF x.kind # "string"
         THEN IF major = 4
              THEN Set(r, [q EXCEPT !.pc = "rejected"])
              ELSE Set(r, Respond(q, 500, "Internal Server Error"))
         ELSE IF TooShort(x)
         THEN Set(r, Respond(q, 400, "Transcript is too short or missing."))
         ELSE Set(r, [q EXCEPT !.pc = "titles_call"])
    /\ UNCHANGED <<variant, transcripts, users, issued, regLog, togLog>>

\* completion = await openai.chat.completions.create(...): res.json({ titles }), or
\* catch -> 500 'Failed to generate titles'
TitlesRespond(r, ok) ==
    /\ reqs[r].pc = "titles_call"
    /\ IF ok
       THEN Set(r, Respond(reqs[r], 200, ""))
       ELSE Set(r, Respond(reqs[r], 500, "Failed to generate titles"))
    /\ UNCHANGED <<variant, transcripts, users, issued, regLog, togLog, nops, rateVars>>

\* The later server, with the accounts of the owner and of one user in the store.
InitTitles ==
    /\ InitApp
    /\ InitRate
    /\ variant = "ownerGated"
    /\ users = << [email |-> "owner@x", password |-> Hash("p"), isAdmin |-> TRUE,
                   isOwner |-> TRUE, name |-> "", bio |-> ""],
                  NewUser("a@x", Hash("q")) >>

NextTitles ==
    \/ \E r \in Slots, e \in Emails, p \in Passwords : Login(r, e, p)
    \/ \E r \in Slots : Unauthenticated(r, "titles", NoToken)
    \/ \E r \in Slots, t \in issued, x \in Texts, major \in ExpressMajors :
          TitlesCheck(r, t, x, major)
    \/ \E r \in Slots, ok \in BOOLEAN : TitlesRespond(r, ok)
    \/ Deliver

SpecTitles == InitTitles /\ [][NextTitles]_vars

\* The external call returns, and the network delivers what the server wrote.
SpecTitlesFair ==
    /\ SpecTitles
    /\ \A r \in Slots : WF_vars(\E ok \in BOOLEAN : TitlesRespond(r, ok))
    /\ WF_vars(Deliver)

\* ------------------------------------- toggles among the other writes
\* Either server, with the accounts of the owner and of one user in the store.
InitFrame ==
    /\ InitApp
    /\ InitRate
    /\ variant \in Variants
    /\ users = << [email |-> "owner@x", password |-> Hash("p"), isAdmin |-> TRUE,
                   isOwner |-> TRUE, name |-> "", bio |-> ""],
                  NewUser("a@x", Hash("q")) >>

\* The toggle-admin route beside the routes that write profiles and transcripts.
NextFrame ==
    \/ \E r \in Slots, e \in Emails, p \in Passwords : Login(r, e, p)
    \/ \E r \in Slots, t \in issued, target \in Ids : ToggleFindActorAdminGated(r, t, target)
    \/ \E r \in Slots, t \in issued, target \in Ids : ToggleFindActor(r, t, target)
    \/ \E r \in Slots : ToggleFindTargetAdminGated(r)
    \/ \E r \in Slots : ToggleFindTarget(r)
    \/ \E r \in Slots : ToggleSave(r)
    \/ \E r \in Slots, t \in issued, n \in Names : ProfileFind(r, t, n)
    \/ \E r \in Slots : ProfileSave(r)
    \/ \E r \in Slots, t \in issued : ChaptersCall(r, t)
    \/ \E r \in Slots, ok \in BOOLEAN : ChaptersCreate(r, ok)
    \/ \E r \in Slots : ChaptersRespond(r)
    \/ Deliver

SpecFrame == InitFrame /\ [][NextFrame]_vars

\* ------------------------------------------------ the lifetime of a token
\* The ages at which a token is presented again, in ms: 6 days 23 hours after a
\* moment, and 1 hour 1 second after that (7 days and 1 second in all).
SixDays23h == (6 * Day + 23 * Hour) * 1000
OneHourOneSecond == (Hour + 1) * 1000
Durations == {SixDays23h, OneHourOneSecond}

\* Time passes between two steps of the server.
TickToken(d) ==
    /\ nops < MaxOps
    /\ nops' = nops + 1
    /\ now + d <= MaxWeeks * 7 * Day * 1000
    /\ now' = now + d
    /\ UNCHANGED <<variant, transcripts, users, issued, reqs, regLog, togLog, store, pending, resp, win>>

\* The later server, with the accounts of the owner and of one user in the store.
InitToken ==
    /\ InitApp
    /\ InitRate
    /\ variant = "ownerGated"
    /\ \E a \in BOOLEAN :
         users = << [email |-> "owner@x", password |-> Hash("p"), isAdmin |-> a,
                     isOwner |-> TRUE, name |-> "", bio |-> ""],
                    NewUser("a@x", Hash("q")) >>

NextToken ==
    \/ \E r \in Slots, e \in Emails, p \in Passwords : Login(r, e, p)
    \/ \E r \in Slots, route \in ProtectedRoutes, t \in issued \cup {NoToken} :
          Unauthenticated(r, route, t)
    \/ \E r \in Slots, t \in issued, target \in Ids : ToggleFindActor(r, t, target)
    \/ \E r \in Slots : ToggleFindTarget(r)
    \/ \E r \in Slots : ToggleSave(r)
    \/ \E r \in Slots, t \in issued : RequireAdmin(r, t)
    \/ \E r \in Slots : AdminUsers(r)
    \/ \E r \in Slots, t \in issued, n \in Names : ProfileFind(r, t, n)
    \/ \E r \in Slots : ProfileSave(r)
    \/ Deliver
    \/ \E d \in Durations : TickToken(d)

SpecToken == InitToken /\ [][NextToken]_vars

\* =================================================================== claims
Done(r) == reqs[r].pc = "done"

\* A toggle-admin request that passed requireAuth and has its response.
ToggleAnswered(r) == Done(r) /\ reqs[r].route = "toggle" /\ reqs[r].status # 401

\* C1: a toggle-admin request whose target account has isOwner = true is answered
\* 403, whoever the authenticated actor is, and the target's isAdmin stays as it was
\* (a 200 is the answer of the request that changed it).
C1_OwnerTargetForbidden ==
    \A r \in Slots :
        (ToggleAnswered(r) /\ Exists(reqs[r].target) /\ users[reqs[r].target].isOwner)
            => reqs[r].status = 403

\* C1 on the later server alone (src/index.js:350-374), where the owner guard exists.
C1_OwnerGatedServer == variant = "ownerGated" => C1_OwnerTargetForbidden

C1_OwnerGatedWitness ==
    \E r \in Slots : /\ variant = "ownerGated"
                      /\ ToggleAnswered(r)
                      /\ reqs[r].msg = "Cannot change owner privileges"

\* The step of slot r that writes its response.
Answers(r) == reqs[r].pc # "done" /\ reqs'[r].pc = "done"

\* C2: the stored isAdmin of an account changes only by the save of a toggle-admin
\* request whose actor's stored record is an owner, and a toggle-admin request of an
\* authenticated actor whose stored record is not an owner is answered 403.
C2_OnlyOwnerChangesAdmin ==
    [][ /\ \A i \in 1..Len(users) :
             users'[i].isAdmin # users[i].isAdmin
                 => \E r \in Slots : /\ reqs[r].pc = "tog_save"
                                      /\ Answers(r)
                                      /\ reqs[r].target = i
                                      /\ ActorAllowed(reqs[r].tok.userId)
        /\ \A r \in Slots :
             (/\ Answers(r)
              /\ reqs'[r].route = "toggle"
              /\ reqs'[r].status # 401
              /\ ~ActorAllowed(reqs'[r].tok.userId))
                 => reqs'[r].status = 403 /\ users' = users
      ]_vars

\* C2 on the later server alone.
C2_OwnerGatedServer ==
    [][variant = "ownerGated" =>
        /\ \A i \in 1..Len(users) :
             users'[i].isAdmin # users[i].isAdmin
                 => \E r \in Slots : /\ reqs[r].pc = "tog_save"
                                      /\ Answers(r)
                                      /\ reqs[r].target = i
                                      /\ ActorAllowed(reqs[r].tok.userId)
        /\ \A r \in Slots :
             (/\ Answers(r)
              /\ reqs'[r].route = "toggle"
              /\ reqs'[r].status # 401
              /\ ~ActorAllowed(reqs'[r].tok.userId))
                 => reqs'[r].status = 403 /\ users' = users
      ]_vars

\* C3: no step changes the isOwner flag of a stored account, and no account is removed.
C3_IsOwnerConstant ==
    [][ /\ Len(users') >= Len(users)
        /\ \A i \in 1..Len(users) : users'[i].isOwner = users[i].isOwner ]_vars

\* A registered account that was made admin by a toggle and has updated its profile.
C3_Witness ==
    \E i \in 1..Len(users) : /\ ~users[i].isOwner
                              /\ users[i].isAdmin
                              /\ users[i].name = "n"

\* Accounts stored with email e.
WithEmail(e) == {i \in 1..Len(users) : users[i].email = e}

\* C4: after two register requests with the same email that ran concurrently, exactly
\* one account has that email and at least one of the two callers was answered 400.
C4_ConcurrentRegister ==
    \A r1, r2 \in Slots :
        (/\ r1 # r2
         /\ Done(r1) /\ reqs[r1].route = "register"
         /\ Done(r2) /\ reqs[r2].route = "register"
         /\ reqs[r1].email = reqs[r2].email)
            => /\ Cardinality(WithEmail(reqs[r1].email)) = 1
               /\ (reqs[r1].status = 400 \/ reqs[r2].status = 400)

\* C5: GET /api/admin/users passes requireAdmin exactly when the stored record of the
\* caller has isAdmin = true at the role check, whatever the token claims; a request
\* that fails it is answered 403 and one that passes is answered 200.
C5_AdminByStoredRole ==
    [][ \A r \in Slots :
          /\ (/\ reqs[r].route # "adminUsers"
              /\ reqs'[r].route = "adminUsers"
              /\ reqs'[r].status # 401)
                 => IF users[reqs'[r].tok.userId].isAdmin
                    THEN reqs'[r].pc = "adm_find"
                    ELSE reqs'[r].pc = "done" /\ reqs'[r].status = 403
          /\ (reqs[r].pc = "adm_find" /\ Answers(r)) => reqs'[r].status = 200
      ]_vars

\* A token issued while the account was no admin lists the users after the toggle.
C5_Witness ==
    \E r \in Slots : /\ Done(r)
                      /\ reqs[r].route = "adminUsers"
                      /\ reqs[r].status = 200
                      /\ ~reqs[r].tok.isAdmin

\* C9: a login that follows a register answered 201, with the same email and
\* password, is answered 200 with a token whose userId is the _id the register created.
C9_RegisterThenLogin ==
    \A r \in Slots :
        (Done(r) /\ reqs[r].route = "login" /\ reqs[r].expect # 0)
            => reqs[r].status = 200 /\ reqs[r].out.userId = reqs[r].expect

C9_Witness ==
    \E r \in Slots : /\ Done(r)
                      /\ reqs[r].route = "login"
                      /\ reqs[r].expect # 0
                      /\ reqs[r].status = 200
                      /\ reqs[r].out.userId = reqs[r].expect

\* What the client sees of a response.
Visible(q) == [status |-> q.status, msg |-> q.msg, detail |-> q.detail, out |-> q.out]

C10_WitnessUnknownEmail ==
    \E r \in Slots : /\ Done(r)
                      /\ reqs[r].route = "login"
                      /\ reqs[r].status = 400
                      /\ ~reqs[r].found

\* C6: in every rate window of every client at most max requests are admitted, under
\* any interleaving of the requests' body reads, and the hits the store holds for an
\* open window are those of that window alone (the count starts again with a window).
C6_WindowCeiling ==
    \A c \in Clients :
        /\ win[c].adm <= max
        /\ store[c].resetTime > now => store[c].totalHits = win[c].seen

\* A client reached the ceiling and was refused, in a window that followed another.
C6_Witness ==
    \E c \in Clients : /\ win[c].adm = max
                        /\ win[c].limited
                        /\ win[c].start > 0

\* C7: the k-th request of a client in a window is admitted when k <= 10 and answered
\* 429 when k = 11 (or more); the first request after the window has elapsed is the
\* first of a new window, and is admitted.
C7_EleventhRejected ==
    [][ \A c \in Clients :
          win'[c] # win[c]
              => /\ resp'.client = c
                 /\ resp'.status = (IF win'[c].seen > max THEN 429 ELSE 200)
                 /\ (now >= win[c].start + windowMs => win'[c].seen = 1)
      ]_vars

\* A client that was answered 429 in one window is admitted in the next.
C7_Witness ==
    \E c \in Clients : /\ win[c].renewed
                        /\ win[c].seen = 1
                        /\ win[c].adm = 1
                        /\ resp.client = c
                        /\ resp.status = 200

\* C8: the limiter runs before body parsing and before authentication: a request
\* answered 429 has had neither its body parsed nor its token verified.
C8_LimiterFirst == resp.status = 429 => ~resp.parsed /\ ~resp.verified

\* The part of C8 that the code keeps: no token is verified for a request answered 429.
C8_LimiterBeforeAuth == resp.status = 429 => ~resp.verified

\* A request of a protected route arrives in slot r with a token this server signed.
Presents(r) ==
    /\ reqs[r].pc = "idle"
    /\ reqs'[r].pc # "idle"
    /\ reqs'[r].route \in ProtectedRoutes
    /\ reqs'[r].tok \in issued

\* The age in seconds of token t.
Age(t) == Seconds(now) - t.iat

\* C11: a token is accepted by authentication up to 6 days 23 hours after it was
\* issued and rejected (401) from 7 days and 1 second after it was issued, whatever
\* logins, toggles and profile updates ran in between.
C11_SevenDayLifetime ==
    [][ \A r \in Slots :
          Presents(r) =>
              /\ Age(reqs'[r].tok) <= 6 * Day + 23 * Hour => reqs'[r].status # 401
              /\ Age(reqs'[r].tok) >= 7 * Day + 1 => reqs'[r].status = 401
      ]_vars

\* A token was rejected 7 days and 1 second after it was issued.
C11_Witness ==
    \E r \in Slots : /\ Done(r)
                      /\ reqs[r].tok \in issued
                      /\ reqs[r].status = 401
                      /\ Age(reqs[r].tok) = 7 * Day + 1

\* A token was accepted 6 days 23 hours after it was issued.
C11_WitnessAccepted ==
    \E r \in Slots : /\ Done(r)
                      /\ reqs[r].tok \in issued
                      /\ reqs[r].status = 200
                      /\ Age(reqs[r].tok) = 6 * Day + 23 * Hour

\* C12: the claims of a token are those of the account when it was signed, no step
\* changes or withdraws a token, and PUT /api/profile (authentication alone) admits
\* every token up to its expiry, also when the account's isAdmin was toggled since.
C12_TokenSnapshot ==
    [][ /\ issued \subseteq issued'
        /\ \A r \in Slots :
             (Answers(r) /\ reqs'[r].route = "login" /\ reqs'[r].status = 200)
                 => /\ reqs'[r].out \in issued'
                    /\ reqs'[r].out.isAdmin = users[reqs'[r].out.userId].isAdmin
                    /\ reqs'[r].out.isOwner = users[reqs'[r].out.userId].isOwner
        /\ \A r \in Slots :
             (/\ Presents(r)
              /\ reqs'[r].route = "profile"
              /\ Seconds(now) < reqs'[r].tok.iat + expiresIn)
                 => reqs'[r].pc = "prof_save"
        /\ \A r \in Slots :
             (reqs[r].pc = "prof_save" /\ Answers(r)) => reqs'[r].status = 200
      ]_vars

\* A token signed before its account was made admin has updated the profile.
C12_Witness ==
    \E r \in Slots : /\ Done(r)
                      /\ reqs[r].route = "profile"
                      /\ reqs[r].status = 200
                      /\ ~reqs[r].tok.isAdmin
                      /\ users[reqs[r].tok.userId].isAdmin
                      /\ ~users[reqs[r].tok.userId].isOwner

\* C13: after two toggle-admin requests on the same target were answered 200, the
\* second having arrived after the first was answered and no other toggle of that
\* target in flight meanwhile, the target's isAdmin is what it was before the first.
C13_TwoTogglesRestore ==
    \A i \in 1..Len(users) : togLog[i].k = 2 => users[i].isAdmin = togLog[i].base

\* An owner toggled a user to admin and back.
C13_Witness ==
    \E i \in 1..Len(users) : /\ togLog[i].k = 2
                              /\ ~users[i].isOwner
                              /\ ~users[i].isAdmin
                              /\ ~togLog[i].odd

\* C19: when the toggle-admin requests on a non-owner target that were answered 200
\* are n, the target's stored isAdmin is its original value (false, as registered)
\* for n even and true for n odd, also when their reads and saves overlapped.
C19_EachToggleFlips ==
    \A i \in 1..Len(users) : ~users[i].isOwner => users[i].isAdmin = togLog[i].odd

\* C19 on the later server alone.
C19_OwnerGatedServer == variant = "ownerGated" => C19_EachToggleFlips

\* The 404 of the two delete routes.
NotFound(route) ==
    [status |-> 404,
     msg |-> IF route = "deleteTranscript" THEN "Transcript not found or unauthorized"
             ELSE "Transcript not found",
     detail |-> "", out |-> NoToken]

\* C14: a delete request of an authenticated account for a transcript of another
\* account is answered 404, with the response of an id that is not stored, and the
\* transcripts collection is left as it was.
C14_ForeignDeleteNotFound ==
    [][ \A r \in Slots :
          (/\ reqs[r].pc = "idle"
           /\ reqs'[r].route \in {"deleteTranscript", "deleteHistory"}
           /\ reqs'[r].status # 401
           /\ \/ reqs'[r].target \notin 1..Len(transcripts)
              \/ ~transcripts[reqs'[r].target].live
              \/ transcripts[reqs'[r].target].userId # reqs'[r].tok.userId)
              => /\ reqs'[r].pc = "done"
                 /\ Visible(reqs'[r]) = NotFound(reqs'[r].route)
                 /\ transcripts' = transcripts
      ]_vars

\* The transcript of another account was asked to be deleted, and is still stored.
C14_Witness ==
    \E r \in Slots : /\ Done(r)
                      /\ reqs[r].route = "deleteTranscript"
                      /\ reqs[r].status = 404
                      /\ reqs[r].target \in 1..Len(transcripts)
                      /\ transcripts[reqs[r].target].live
                      /\ transcripts[reqs[r].target].userId # reqs[r].tok.userId

\* The same on DELETE /api/history/:id.
C14_WitnessHistory ==
    \E r \in Slots : /\ Done(r)
                      /\ reqs[r].route = "deleteHistory"
                      /\ reqs[r].status = 404
                      /\ reqs[r].target \in 1..Len(transcripts)
                      /\ transcripts[reqs[r].target].live
                      /\ transcripts[reqs[r].target].userId # reqs[r].tok.userId

\* C15: every record GET /api/transcripts and GET /api/history return was created
\* by the caller's account, after any creations and deletions by any accounts.
C15_OwnRecordsOnly ==
    \A r \in Slots :
        (Done(r) /\ reqs[r].route \in {"transcripts", "history"} /\ reqs[r].status = 200)
            => \A i \in reqs[r].list : transcripts[i].userId = reqs[r].tok.userId

\* An account was given its record while another account has a record too.
C15_Witness ==
    \E r \in Slots : /\ Done(r)
                      /\ reqs[r].route \in {"transcripts", "history"}
                      /\ reqs[r].list # {}
                      /\ \E i \in 1..Len(transcripts) :
                            /\ transcripts[i].live
                            /\ transcripts[i].userId # reqs[r].tok.userId

\* C16: a 500 response carries a fixed message and no text of the caught error.
C16_NoErrorDetail ==
    \A r \in Slots : (Done(r) /\ reqs[r].status = 500) => reqs[r].detail = ""

\* A request that the server has admitted and not yet answered.
Unanswered(r) == reqs[r].pc \notin {"idle", "done"}

\* C17: every admitted request is answered in the end, whatever step of its handler
\* fails.
C17_EveryRequestAnswered ==
    \A r \in Slots : Unanswered(r) ~> Done(r)

\* C17 for the requests whose transcript is a string or is missing.
C17_StringTranscriptsAnswered ==
    \A r \in Slots : (Unanswered(r) /\ reqs[r].text.kind # "number") ~> Done(r)

\* A generate-titles request with a transcript that is a string has its response.
TitlesAnswered(r) ==
    /\ Done(r)
    /\ reqs[r].route = "titles"
    /\ reqs[r].status # 401
    /\ reqs[r].text.kind = "string"

\* C18, as the specification states it: generate-titles answers 400 exactly when the
\* length of the transcript is below 20, and a longer one is answered 200 when the
\* external call succeeds (500 is the answer when that call fails).
C18_LengthBelowTwenty ==
    \A r \in Slots :
        TitlesAnswered(r) =>
            /\ reqs[r].status = 400 <=> Length(reqs[r].text) < 20
            /\ Length(reqs[r].text) >= 20 => reqs[r].status \in {200, 500}

\* C18, amended: the length that counts is that of the transcript without its
\* leading and trailing whitespace.
C18_TrimmedLengthBelowTwenty ==
    \A r \in Slots :
        TitlesAnswered(r) =>
            /\ reqs[r].status = 400 <=> reqs[r].text.core < 20
            /\ reqs[r].text.core >= 20 => reqs[r].status \in {200, 500}

\* A transcript of 20 characters, one of them a trailing blank, was answered 400.
C18_Witness ==
    \E r \in Slots : /\ TitlesAnswered(r)
                      /\ Length(reqs[r].text) = 20
                      /\ reqs[r].text.core = 19
                      /\ reqs[r].status = 400

\* A transcript of 20 characters with no blank at its ends was answered 200.
C18_WitnessTwenty ==
    \E r \in Slots : /\ TitlesAnswered(r)
                      /\ Length(reqs[r].text) = 20
                      /\ reqs[r].text.core = 20
                      /\ reqs[r].status = 200

\* The stored record of the account of request q lacks the role its route asks for:
\* isAdmin for GET /api/admin/users, isOwner (isAdmin on the earlier server) for
\* toggle-admin.
Insufficient(q) ==
    LET u == users[q.tok.userId] IN
        IF q.route = "toggle" /\ variant = "ownerGated" THEN ~u.isOwner ELSE ~u.isAdmin

\* C20: a request to GET /api/admin/users or toggle-admin without a valid token is
\* answered 401 by authentication, before any role check or store access, and one
\* with a valid token whose account lacks the role is answered 403; no request with a
\* valid token is answered 401.
C20_AuthBeforeRole ==
    [][ \A r \in Slots :
          /\ (/\ reqs[r].pc = "idle"
              /\ reqs'[r].route \in {"adminUsers", "toggle"})
                 => LET q == reqs'[r]
                        valid == q.tok \in issued /\ Seconds(now) < q.tok.exp
                    IN /\ ~valid => q.pc = "done" /\ q.status = 401 /\ users' = users
                       /\ valid => q.status # 401
                       /\ (valid /\ Insufficient(q)) => q.pc = "done" /\ q.status = 403
          /\ (Unanswered(r) /\ Answers(r)) => reqs'[r].status # 401
      ]_vars

\* A toggle-admin request with the valid token of an account that is no owner was
\* answered 403.
C20_Witness ==
    \E r \in Slots : /\ Done(r)
                      /\ reqs[r].route = "toggle"
                      /\ reqs[r].status = 403
                      /\ reqs[r].tok \in issued
                      /\ ~Expired(reqs[r].tok)
                      /\ ~users[reqs[r].tok.userId].isOwner

\* A request with the expired token of an admin was answered 401.
C20_WitnessExpired ==
    \E r \in Slots : /\ Done(r)
                      /\ reqs[r].route = "adminUsers"
                      /\ reqs[r].status = 401
                      /\ reqs[r].tok \in issued
                      /\ users[reqs[r].tok.userId].isAdmin

\* C21: the step that answers a toggle-admin request 200 changes nothing but the
\* isAdmin field of the target account: its other fields, every other account and
\* every transcript are as before; the step that answers one 404 changes no account
\* and no transcript.
C21_ToggleFrame ==
    [][ \A r \in Slots :
          (Answers(r) /\ reqs'[r].route = "toggle")
              => /\ reqs'[r].status \in {200, 404}
                      => /\ transcripts' = transcripts
                         /\ Len(users') = Len(users)
                         /\ \A i \in 1..Len(users) :
                              i # reqs'[r].target => users'[i] = users[i]
                 /\ reqs'[r].status = 200
                      => users'[reqs'[r].target] =
                            [users[reqs'[r].target]
                                EXCEPT !.isAdmin = users'[reqs'[r].target].isAdmin]
                 /\ reqs'[r].status = 404
                      => /\ reqs'[r].target \notin 1..Len(users)
                         /\ users' = users
      ]_vars

\* A user with a profile and a transcript was made admin by a toggle answered 200.
C21_Witness ==
    \E r \in Slots : /\ Done(r)
                      /\ reqs[r].route = "toggle"
                      /\ reqs[r].status = 200
                      /\ users[reqs[r].target].name = "n"
                      /\ users[reqs[r].target].isAdmin
                      /\ ~users[reqs[r].target].isOwner
                      /\ \E i \in 1..Len(transcripts) : transcripts[i].live

\* A toggle-admin request for an account that is not stored was answered 404.
C21_WitnessNotFound ==
    \E r \in Slots : /\ Done(r)
                      /\ reqs[r].route = "toggle"
                      /\ reqs[r].status = 404
                      /\ ~Exists(reqs[r].target)
                      /\ \E i \in 1..Len(transcripts) : transcripts[i].live

====
